---- MODULE Spec2Model ----
(***************************************************************************)
(* Model of the credence conversation execution engine.                    *)
(*                                                                         *)
(* The adapter owns the message log, the pending chatbot-message queue and *)
(* the index counter (adapter.py); the metadata accumulator is the module  *)
(* global of metadata.py.  An interaction's outcome is computed by its     *)
(* to_result method (interaction/*.py).  The walk that threads has_failed  *)
(* through the interactions and assembles the Result is not part of the    *)
(* sources at hand in the revision that produces Result: it is written     *)
(* here from the specification's dispatch table (spec.md 4.3), around the  *)
(* to_result methods and the adapter helpers, which are modelled from code.*)
(* Adapter.test runs its loop inside a try block whose except clause       *)
(* returns a failed result (adapter.py); a value without a status handed   *)
(* back by a to_result method ends the walk through that clause.           *)
(*                                                                         *)
(* The chatbot under test is the environment: while handle_message runs it *)
(* may call collect_metadata and record_chatbot_message any number of      *)
(* times (MaxEvents bounds the callbacks of one run) and then returns a    *)
(* reply, returns None or raises.                                          *)
(***************************************************************************)
EXTENDS Integers, Sequences, FiniteSets, TLC

(* ----------------------------- bounds ---------------------------------- *)
\* number of interactions, nested ones included, up to which every conversation
\* is run; longer ones are the Scenarios
MaxInteractions == 2
\* callbacks (collect_metadata, record_chatbot_message) the chatbot makes in one run
MaxEvents == 2
\* the largest retry budget an AI check of a script is given
MaxRetries == 1
\* length of the texts a check is built from and evaluated on
MaxLen == 2
\* evaluations of one check against one value
MaxEvaluations == 2
\* NestedConversations made of one conversation
MaxNestings == 2
\* entries of the list given to decode_conversations
MaxEntries == 2

(* ----------------------------- values ---------------------------------- *)
\* Python's None, as a string no message body equals
None == "None"

\* Python truthiness of a str | None value
Truthy(s) == s # None /\ s # ""

\* message bodies a chatbot may produce; "" is a legal (falsy) str
Bodies == {"", "x"}

\* the text of a literal user message, and the text the generator returns
UserText == "hi"
GeneratedText == "gen"

Keys == {"chatbot.handler"}
Values == {"v", "w"}

\* a metadata mapping: a function from a subset of Keys to Values
EmptyMap == [k \in {} |-> "v"]

Passed == "passed"
Failed == "failed"
Skipped == "skipped"

RoleUser == "user"
RoleChatbot == "assistant"

DefinedFunctions == {"register_user"}
FunctionNames == DefinedFunctions \cup {"undefined_function"}

(* ---------------------- texts, patterns, raw values --------------------- *)
Alphabet == {"a", "b"}

RECURSIVE Texts(_)
\* the str values of at most n characters
Texts(n) ==
    IF n = 0 THEN {""}
    ELSE Texts(n - 1) \cup {t \o c : t \in Texts(n - 1), c \in Alphabet}

\* Python's `s in t` for two str values
IsSubstring(s, t) == \E p \in Texts(Len(t)), q \in Texts(Len(t)) : p \o s \o q = t

\* regular expressions: a literal, anchored or not at either end; and a
\* literal followed by "[", which opens a character set that is never closed
Regexps(n) ==
    UNION {{b, "^" \o b, b \o "$", "^" \o b \o "$", b \o "["} : b \in Texts(n)}

\* the ways re reads a pattern text; none when the text is not a valid pattern
Forms(regexp) ==
    {f \in [start : BOOLEAN, end : BOOLEAN, body : Texts(Len(regexp))] :
        regexp = (IF f.start THEN "^" ELSE "") \o f.body \o (IF f.end THEN "$" ELSE "")}

\* does re.compile(regexp) return a pattern (it raises re.error otherwise)
Compiles(regexp) == Forms(regexp) # {}

\* re.compile(regexp), for a text that compiles
re_compile(regexp) == [type |-> "Pattern", pattern |-> regexp]

\* re.search(pattern, string) is not None
re_search(pattern, string) ==
    \E f \in Forms(pattern.pattern) :
        \E p \in Texts(Len(string)), q \in Texts(Len(string)) :
            /\ p \o f.body \o q = string
            /\ f.start => p = ""
            /\ f.end => q = ""

\* a raw metadata value as one_of sees it: its Python type, the number it
\* holds (if it is one) and its text form str(value)
PyStr(t) == [py |-> "str", num |-> 0, text |-> t]
PyInt(n) == [py |-> "int", num |-> n, text |-> ToString(n)]
PyFloat(n) == [py |-> "float", num |-> n, text |-> ToString(n) \o ".0"]

\* Python's a == b
PyEq(a, b) ==
    IF a.py = "str" \/ b.py = "str" THEN a.py = b.py /\ a.text = b.text
    ELSE a.num = b.num

\* Python's `value in values` for a list
PyIn(value, values) == \E i \in DOMAIN values : PyEq(values[i], value)

\* Python's str(value)
str(value) == value.text

(* ----------------------------- checks ---------------------------------- *)
\* Response.equals("x")
MessageCheck == [type |-> "message_check", operation |-> "equals", value |-> "x"]
\* Metadata("chatbot.handler").equals("v")
MetadataCheck ==
    [type |-> "metadata_check", key |-> "chatbot.handler", operation |-> "equals", value |-> "v"]
\* Response.ai_check(should=...)
AICheck == [type |-> "ai_check", prompt |-> "p", retries |-> 0]

Checks == {MessageCheck, MetadataCheck, AICheck}

\* what Metadata("chatbot.handler").re_match(regexp) hands back for a text that
\* is not a regular expression: the exception, returned instead of raised
ReturnedException == [type |-> "Exception"]

\* Response.ai_check(should=..., retries=...)
AICheckWithRetries == [type |-> "ai_check", prompt |-> "p", retries |-> MaxRetries]


CheckLists == {<<>>} \cup {<<check>> : check \in Checks}

(* --------------------------- interactions ------------------------------ *)
UserMessage(generated) ==
    [type |-> "user_message", text |-> UserText, generated |-> generated]
ChatbotResponds(expectations) ==
    [type |-> "chatbot_responds", expectations |-> expectations]
ChatbotIgnoresMessage == [type |-> "chatbot_ignores"]
FunctionCall(name) == [type |-> "function_call", function |-> name]
NestedConversation(conv) == [type |-> "nested_conversation", conversation |-> conv]

Leaves ==
    {UserMessage(g) : g \in BOOLEAN}
    \cup {ChatbotResponds(e) : e \in CheckLists}
    \cup {ChatbotIgnoresMessage}
    \cup {FunctionCall(f) : f \in FunctionNames}

RECURSIVE Size(_)
\* number of interactions of a conversation, nested ones included
Size(conv) ==
    IF conv = <<>> THEN 0
    ELSE LET i == Head(conv)
         IN  1 + (IF i.type = "nested_conversation" THEN Size(i.conversation) ELSE 0)
               + Size(Tail(conv))

RECURSIVE Convs(_)
\* the conversations of at most n interactions, nested ones included
Convs(n) ==
    IF n = 0 THEN {<<>>}
    ELSE {<<>>}
         \cup {<<i>> \o rest : i \in Leaves, rest \in Convs(n - 1)}
         \cup UNION {{<<NestedConversation(c)>> \o rest :
                          rest \in Convs(n - 1 - Size(c))} :
                     c \in Convs(n - 1)}

\* longer conversations: two turns, a chatbot sending two messages, metadata
\* checked in consecutive turns, nested conversations before and after a
\* failure; an AI check with a retry budget; and a list of expectations
\* holding what Metadata(...).re_match returned for an invalid pattern
Scenarios ==
    {<<UserMessage(FALSE), ChatbotResponds(<<>>), UserMessage(FALSE)>>,
     <<UserMessage(FALSE), ChatbotResponds(<<AICheckWithRetries>>)>>,
     <<UserMessage(FALSE), ChatbotResponds(<<ReturnedException>>)>>,
     <<UserMessage(FALSE), ChatbotResponds(<<MessageCheck>>),
       UserMessage(FALSE), ChatbotResponds(<<>>)>>,
     <<UserMessage(FALSE), ChatbotResponds(<<MessageCheck>>), ChatbotResponds(<<AICheck>>)>>,
     <<UserMessage(FALSE), ChatbotResponds(<<MetadataCheck>>),
       UserMessage(TRUE), ChatbotResponds(<<MetadataCheck>>)>>,
     <<ChatbotResponds(<<>>), NestedConversation(<<UserMessage(FALSE)>>)>>,
     <<NestedConversation(<<FunctionCall("register_user")>>), ChatbotResponds(<<>>)>>,
     <<FunctionCall("register_user"),
       NestedConversation(<<UserMessage(FALSE), ChatbotResponds(<<MessageCheck>>)>>),
       UserMessage(FALSE), ChatbotIgnoresMessage>>}

\* the conversations handed to test()
Conversations == Convs(MaxInteractions) \cup Scenarios

(* ------------------------------ state ---------------------------------- *)
VARIABLES
    conversation,        \* the Conversation handed to test()
    stack,               \* one frame per active test() walk, outermost first
    pc,                  \* "walk" | "handling" | "done"
    handling,            \* the handle_message call in progress, and (history)
                         \* the messages pushed during it
    events,              \* history: callbacks the chatbot has made in this run
    messages,            \* Adapter.messages
    queue,               \* Adapter.queue
    next_message_index,  \* Adapter.next_message_index
    metadata,            \* metadata.metadata, the accumulator
    result,              \* the Result test() returned, once pc = "done"
    calls,               \* history: calls made to the adapter and the client
    thrown,              \* history: which of them raised an exception
    collected,           \* history: metadata collected since the last chatbot message
    recorded,            \* history: per chatbot message, what had been collected
    answered,            \* history: the evaluator's answers at the last ChatbotResponds
    checking,            \* a check built and evaluated on its own, outside a walk
    heap,                \* Conversation objects and the NestedConversations made of them
    decoding,            \* a decode_conversations call: its input and its locals
    run,                 \* history: which test() call this is, and what it started from
    timing               \* a test() call as its clock sees it: the readings and the sums

vars == <<conversation, stack, pc, handling, events, messages, queue, next_message_index,
          metadata, result, calls, thrown, collected, recorded, answered, checking, heap, decoding,
          run, timing>>

NoResult == [failed |-> FALSE, interaction_results |-> <<>>]
NoHandling == [user_message |-> None, pushed |-> <<>>]
NoChecking == [builder |-> [class |-> None]]
NoCall == [argument |-> [class |-> None, id |-> 0], outcome |-> None]
NoHeap == [objects |-> <<>>, roots |-> <<>>, call |-> NoCall]
NoDecoding == [pc |-> None]
NoTiming == [pc |-> None]
\* the first test() call of a process: the adapter and the accumulator are as
\* constructed (adapter.py:140-149, metadata.py:8)
FirstRun == [number |-> 1, log |-> <<>>, pending |-> <<>>, carried |-> EmptyMap]


(* ------------------------ metadata.py, adapter.py ---------------------- *)
\* metadata.get_values(): the accumulated values, and the accumulator left
\* empty (adapter.py:291 calls it; its body is written from spec.md 4.1)
get_values(md) == [values |-> md, metadata |-> EmptyMap]

\* metadata.clear()
clear(md) == EmptyMap

\* metadata.set_value(key, value)
set_value(md, key, value) ==
    [k \in (DOMAIN md) \cup {key} |-> IF k = key THEN value ELSE md[k]]

\* the adapter's fields and the accumulator, as one value the helpers transform
AdapterState ==
    [messages |-> messages, queue |-> queue, next_message_index |-> next_message_index,
     metadata |-> metadata, collected |-> collected, recorded |-> recorded]

\* C24 mutant: a chatbot message is appended to the log and not put on the queue
_add_message_NotQueued(a, role, body) ==
    [a EXCEPT
       !.metadata = IF role = RoleChatbot THEN EmptyMap ELSE @,
       !.messages = Append(@, [index |-> a.next_message_index, role |-> role,
                               body |-> body,
                               metadata |-> IF role = RoleChatbot
                                            THEN <<a.metadata>> ELSE <<>>]),
       !.next_message_index = @ + 1,
       !.recorded = IF role = RoleChatbot
                    THEN Append(@, [index |-> a.next_message_index,
                                    collected |-> a.collected])
                    ELSE @,
       !.collected = IF role = RoleChatbot THEN EmptyMap ELSE @]

\* C16 mutant: a chatbot message is put at the front of the queue
_add_message_QueuedFirst(a, role, body) ==
    [a EXCEPT
       !.queue = IF role = RoleChatbot
                 THEN <<[index |-> a.next_message_index, body |-> body]>> \o @
                 ELSE @,
       !.metadata = IF role = RoleChatbot THEN EmptyMap ELSE @,
       !.messages = Append(@, [index |-> a.next_message_index, role |-> role,
                               body |-> body,
                               metadata |-> IF role = RoleChatbot
                                            THEN <<a.metadata>> ELSE <<>>]),
       !.next_message_index = @ + 1,
       !.recorded = IF role = RoleChatbot
                    THEN Append(@, [index |-> a.next_message_index,
                                    collected |-> a.collected])
                    ELSE @,
       !.collected = IF role = RoleChatbot THEN EmptyMap ELSE @]

\* C15 mutant: the message is appended and next_message_index is left as it was
_add_message_IndexKept(a, role, body) ==
    [a EXCEPT
       !.queue = IF role = RoleChatbot
                 THEN Append(@, [index |-> a.next_message_index, body |-> body])
                 ELSE @,
       !.messages = Append(@, [index |-> a.next_message_index, role |-> role,
                               body |-> body,
                               metadata |-> IF role = RoleChatbot
                                            THEN <<a.metadata>> ELSE <<>>])]

\* Adapter._add_message(role, message)
_add_message(a, role, body) ==
    LET gv == get_values(a.metadata)
        message_metadata == IF role = RoleChatbot THEN <<gv.values>> ELSE <<>>
    IN  [a EXCEPT
           !.queue = IF role = RoleChatbot
                     THEN Append(@, [index |-> a.next_message_index, body |-> body])
                     ELSE @,
           !.metadata = IF role = RoleChatbot THEN gv.metadata ELSE @,
           !.messages = Append(@, [index |-> a.next_message_index, role |-> role,
                                   body |-> body, metadata |-> message_metadata]),
           !.next_message_index = @ + 1,
           !.recorded = IF role = RoleChatbot
                        THEN Append(@, [index |-> a.next_message_index,
                                        collected |-> a.collected])
                        ELSE @,
           !.collected = IF role = RoleChatbot THEN EmptyMap ELSE @]

\* C23 mutant: a pending message with an empty body is taken for no message
NextQueued_EmptyIsAbsent(a) ==
    IF a.queue = <<>> \/ Head(a.queue).body = "" THEN None ELSE Head(a.queue).body

\* queue.get_nowait() as the adapter uses it: the body of the oldest pending
\* chatbot message, or None when the queue is empty
NextQueued(a) == IF a.queue = <<>> THEN None ELSE Head(a.queue).body

\* C14 mutant: the oldest pending message is read and left in the queue
Dequeued_Peeked(a) == a

\* the queue once get_nowait() has returned
Dequeued(a) == [a EXCEPT !.queue = IF @ = <<>> THEN @ ELSE Tail(@)]

(* --------------------------- check results ----------------------------- *)
\* C25 mutant: the value is compared before the skipped flag is read
MessageCheckResult_ValueFirst(check, value, skipped) ==
    [type |-> "message_check", data |-> check,
     status |-> IF check.operation = "equals" /\ check.value # value THEN Failed
                ELSE IF check.operation = "not_equals" /\ check.value = value THEN Failed
                ELSE IF check.operation = "contains" /\ ~IsSubstring(check.value, value)
                     THEN Failed
                ELSE IF check.operation = "not_contains" /\ IsSubstring(check.value, value)
                     THEN Failed
                ELSE IF check.operation = "regex_match" /\ ~re_search(check.value, value)
                     THEN Failed
                ELSE IF skipped THEN Skipped
                ELSE Passed]

\* ChatbotResponseMessageCheck.to_check_result(value, skipped)
MessageCheckResult(check, value, skipped) ==
    [type |-> "message_check", data |-> check,
     status |-> IF skipped THEN Skipped
                ELSE IF check.operation = "equals" /\ check.value # value THEN Failed
                ELSE IF check.operation = "not_equals" /\ check.value = value THEN Failed
                ELSE IF check.operation = "contains" /\ ~IsSubstring(check.value, value)
                     THEN Failed
                ELSE IF check.operation = "not_contains" /\ IsSubstring(check.value, value)
                     THEN Failed
                ELSE IF check.operation = "regex_match" /\ ~re_search(check.value, value)
                     THEN Failed
                ELSE Passed]

\* C27 mutant: one_of compares text forms only
MetadataCheckResult_TextOnly(check, value, skipped) ==
    [type |-> "metadata_check", data |-> check, missing_key |-> FALSE,
     status |-> IF skipped THEN Skipped
                ELSE IF check.operation = "equals" /\ check.value # value THEN Failed
                ELSE IF check.operation = "not_equals" /\ check.value = value THEN Failed
                ELSE IF check.operation = "contains" /\ ~IsSubstring(check.value, value)
                     THEN Failed
                ELSE IF check.operation = "not_contains" /\ IsSubstring(check.value, value)
                     THEN Failed
                ELSE IF check.operation = "regex_match" /\ ~re_search(check.value, value)
                     THEN Failed
                ELSE IF check.operation = "one_of"
                        /\ str(value) \notin {str(check.value[i]) : i \in DOMAIN check.value}
                     THEN Failed
                ELSE Passed]

\* ChatbotResponseMetadataCheck.to_check_result(value, skipped)
MetadataCheckResult(check, value, skipped) ==
    [type |-> "metadata_check", data |-> check, missing_key |-> FALSE,
     status |-> IF skipped THEN Skipped
                ELSE IF check.operation = "equals" /\ check.value # value THEN Failed
                ELSE IF check.operation = "not_equals" /\ check.value = value THEN Failed
                ELSE IF check.operation = "contains" /\ ~IsSubstring(check.value, value)
                     THEN Failed
                ELSE IF check.operation = "not_contains" /\ IsSubstring(check.value, value)
                     THEN Failed
                ELSE IF check.operation = "regex_match" /\ ~re_search(check.value, value)
                     THEN Failed
                ELSE IF check.operation = "one_of"
                        /\ ~PyIn(value, check.value)
                        /\ str(value) \notin {str(check.value[i]) : i \in DOMAIN check.value}
                     THEN Failed
                ELSE Passed]

\* ChatbotResponseMetadataCheck.failed_missing_key()
failed_missing_key(check) ==
    [type |-> "metadata_check", data |-> check, missing_key |-> TRUE, status |-> Failed]

\* what the evaluator may answer to one AI check
AIOutcomes == {"met", "not_met", "error"}

\* the answers the evaluator gives to the successive calls made for one check
AnswerStreams(n) == [1..n -> AIOutcomes]

RECURSIVE check_requirement(_, _)
\* AIContentCheck.check_requirement(client, model_name, messages, requirement,
\* retries): the answer it returns (an "error" is the exception the client
\* raised) and the number of calls it made to the client
check_requirement(answers, retries) ==
    LET answer == Head(answers)
    IN  IF answer = "not_met" /\ retries > 0
        THEN LET again == check_requirement(Tail(answers), retries - 1)
             IN  [answer |-> again.answer, calls |-> again.calls + 1]
        ELSE [answer |-> answer, calls |-> 1]

\* the default of the retries parameter of check_requirement (ai.py:136)
DefaultRetries == 0

\* the call of check_requirement in to_check_result (ai.py:55-60): the check's
\* own retries field is not among the arguments, so the default applies
Evaluation(check, answers) == check_requirement(answers, DefaultRetries)

\* ChatbotResponseAICheck.to_check_result(messages, adapter, skipped); answers
\* are the evaluator's answers, read only when the check is not skipped
AICheckResult(check, answers, skipped) ==
    LET answer == IF skipped THEN "none" ELSE Evaluation(check, answers).answer
    IN  [type |-> "ai_check", data |-> check,
         status |-> IF skipped THEN Skipped
                    ELSE IF answer = "met" THEN Passed ELSE Failed,
         generation_error |-> IF answer = "error" THEN "trace" ELSE None,
         unmet_requirement |-> IF answer = "not_met" THEN "reason" ELSE None]

\* the evaluator answers one ChatbotResponds can receive: for an AI check that
\* is evaluated as many answers as its retry budget allows calls, none elsewhere
AIAnswers(expectations, skipped) ==
    {f \in [DOMAIN expectations -> UNION {AnswerStreams(n) : n \in 0..(MaxRetries + 1)}] :
        \A i \in DOMAIN expectations :
            Len(f[i]) = IF expectations[i].type = "ai_check" /\ ~skipped
                        THEN expectations[i].retries + 1 ELSE 0}

RECURSIVE ClientCalls(_, _)
\* the calls made to the client for the checks of one ChatbotResponds
ClientCalls(expectations, answers) ==
    IF expectations = <<>> THEN <<>>
    ELSE (IF Head(answers) = <<>> THEN <<>>
          ELSE [j \in 1..Evaluation(Head(expectations), Head(answers)).calls |-> "client"])
         \o ClientCalls(Tail(expectations), Tail(answers))

(* ----------------------------- builders -------------------------------- *)
\* how a call ended: with a value handed back to the caller, or with an exception
Returned(value) == [outcome |-> "returned", value |-> value]
Raised == [outcome |-> "raised"]
Pending == [outcome |-> "pending"]

\* C28 mutant: not_contains builds the check contains builds
Response_NotContainsIsContains(operation, argument) ==
    IF operation = "regex_match"
    THEN IF Compiles(argument)
         THEN Returned([type |-> "message_check", operation |-> operation,
                        value |-> re_compile(argument)])
         ELSE Raised
    ELSE Returned([type |-> "message_check",
                   operation |-> IF operation = "not_contains" THEN "contains"
                                 ELSE operation,
                   value |-> argument])

\* Response.contains / not_contains / equals / not_equals (string) and
\* Response.re_match(regexp)
Response(operation, argument) ==
    IF operation = "regex_match"
    THEN IF Compiles(argument)
         THEN Returned([type |-> "message_check", operation |-> operation,
                        value |-> re_compile(argument)])
         ELSE Raised
    ELSE Returned([type |-> "message_check", operation |-> operation, value |-> argument])

\* Response.ai_check(should, retries)
ai_check(should, retries) ==
    Returned([type |-> "ai_check", prompt |-> should, retries |-> retries])

\* ChatbotResponseMetadataCheck(key=, value=, operation=)
ChatbotResponseMetadataCheck(key, value, operation) ==
    [type |-> "metadata_check", key |-> key, operation |-> operation, value |-> value]

\* Metadata(field).contains / equals / not_equals / one_of / re_match; on a
\* text that does not compile re_match catches the exception it raises and
\* returns it
Metadata(field, operation, argument) ==
    IF operation = "contains"
    THEN IF argument.py # "str" THEN Raised
         ELSE Returned(ChatbotResponseMetadataCheck(field, argument.text, operation))
    ELSE IF operation \in {"equals", "not_equals"}
         THEN Returned(ChatbotResponseMetadataCheck(field, str(argument), operation))
    ELSE IF operation = "one_of"
         THEN Returned(ChatbotResponseMetadataCheck(field, argument, operation))
    ELSE IF Compiles(argument)
         THEN Returned(ChatbotResponseMetadataCheck(field, re_compile(argument), operation))
    ELSE Returned(ReturnedException)

\* the call a builder record stands for
Build(builder) ==
    IF builder.class = "Response"
    THEN IF builder.operation = "ai_check" THEN ai_check("p", builder.argument)
         ELSE Response(builder.operation, builder.argument)
    ELSE IF builder.class = "Metadata"
         THEN Metadata(builder.field, builder.operation, builder.argument)
    ELSE Returned(ChatbotResponseMetadataCheck(builder.field, builder.argument,
                                               builder.operation))

(* ---------------------- ChatbotResponds.to_result ---------------------- *)
\* C8 mutant: the skipped flag handed in is dropped, only a missing message skips
RespondsSkipped_FlagDropped(skipped, chatbot_response) == chatbot_response = None

\* the skipped flag once the missing-message test has run (chatbot/__init__.py:57-59)
RespondsSkipped(skipped, chatbot_response) == skipped \/ chatbot_response = None

\* one entry of check_results (chatbot/__init__.py:63-91)
CheckResultOf(expectation, skipped, metadata_fields, chatbot_response, answer) ==
    IF expectation.type = "ai_check" THEN AICheckResult(expectation, answer, skipped)
    ELSE IF expectation.type = "message_check"
         THEN MessageCheckResult(expectation, chatbot_response, skipped)
    ELSE IF skipped THEN MetadataCheckResult(expectation, None, TRUE)
    ELSE IF expectation.key \in DOMAIN metadata_fields
         THEN MetadataCheckResult(expectation, metadata_fields[expectation.key], skipped)
    ELSE failed_missing_key(expectation)

\* isinstance(expectation, ...) is true in one of the three branches of the loop
IsCheck(expectation) ==
    expectation.type \in {"ai_check", "message_check", "metadata_check"}

RECURSIVE CheckResults(_, _, _, _, _)
\* check_results (chatbot/__init__.py:61-91): an expectation that is of none
\* of the three check classes gets no entry
CheckResults(expectations, skipped, metadata_fields, chatbot_response, answers) ==
    IF expectations = <<>> THEN <<>>
    ELSE (IF IsCheck(Head(expectations))
          THEN <<CheckResultOf(Head(expectations), skipped, metadata_fields,
                               chatbot_response, Head(answers))>>
          ELSE <<>>)
         \o CheckResults(Tail(expectations), skipped, metadata_fields,
                         chatbot_response, Tail(answers))

\* ChatbotResponds.to_result(adapter, skipped, messages, chatbot_response)
ChatbotRespondsToResult(interaction, skipped0, md, chatbot_response, answers) ==
    LET skipped == RespondsSkipped(skipped0, chatbot_response)
        status0 == IF chatbot_response = None THEN Failed ELSE None
        metadata_fields == md
        check_results ==
            CheckResults(interaction.expectations, skipped, metadata_fields,
                         chatbot_response, answers)
        status ==
            IF status0 # None THEN status0
            ELSE IF skipped THEN Skipped
            ELSE IF \E i \in DOMAIN check_results : check_results[i].status = Failed
                 THEN Failed
            ELSE Passed
    IN  [type |-> "chatbot_responds", data |-> interaction, status |-> status,
         metadata |-> metadata_fields, checks |-> check_results,
         chatbot_response |-> chatbot_response,
         \* only the branch at chatbot/__init__.py:99-107 sets it, and that
         \* branch is behind "if status: pass" whenever chatbot_response is None
         missing_chatbot_message |-> FALSE]

\* ChatbotRespondsResult.generate_error_messages(): does it report an error
RespondsReportsError(r) ==
    \/ r.missing_chatbot_message
    \/ \E i \in DOMAIN r.checks :
          \/ (r.checks[i].type = "message_check" /\ r.checks[i].status = Failed)
          \/ (r.checks[i].type = "metadata_check"
              /\ (r.checks[i].missing_key \/ r.checks[i].status = Failed))
          \/ (r.checks[i].type = "ai_check"
              /\ (r.checks[i].generation_error # None
                  \/ r.checks[i].unmet_requirement # None))

(* -------------------- ChatbotIgnoresMessage.to_result ------------------ *)
\* ChatbotIgnoresMessage.passed() / failed(unhandled_message) / skipped()
IgnoresResult(interaction, status, unhandled_message) ==
    [type |-> "chatbot_ignores", data |-> interaction, status |-> status,
     unhandled_message |-> unhandled_message]

\* ChatbotIgnoresMessage.to_result(next_message): on a pending message the
\* method returns a one-element tuple holding the failed result
ChatbotIgnoresToResult(interaction, next_message) ==
    IF Truthy(next_message)
    THEN [type |-> "tuple", item |-> IgnoresResult(interaction, Failed, next_message)]
    ELSE IgnoresResult(interaction, Passed, None)

(* ------------------------ UserMessage.to_result ------------------------ *)
\* UserMessage.passed / failed / skipped
UserResult(interaction, status, user_message, chatbot_response, generation_error, handle_message_error, unexpected_chatbot_message) ==
    [type |-> "user_message", data |-> interaction, status |-> status,
     user_message |-> user_message, chatbot_response |-> chatbot_response,
     generation_error |-> generation_error,
     handle_message_error |-> handle_message_error,
     unexpected_chatbot_message |-> unexpected_chatbot_message]

UserSkipped(interaction) == UserResult(interaction, Skipped, None, None, None, None, None)

UserUnexpected(interaction, next_chatbot_message) ==
    UserResult(interaction, Failed, None, None, None, None, next_chatbot_message)

\* C21 mutant: the interaction fails and the generation error is not kept
UserGenerationError_Uncaptured(interaction) ==
    UserResult(interaction, Failed, None, None, None, None, None)

\* C4 mutant: a generation error is swallowed and the interaction passes
UserGenerationError_Swallowed(interaction) ==
    UserResult(interaction, Passed, None, None, None, None, None)

UserGenerationError(interaction) ==
    UserResult(interaction, Failed, None, None, "error", None, None)

UserPassed(interaction, user_message, chatbot_response) ==
    UserResult(interaction, Passed, user_message, chatbot_response, None, None, None)

\* the value to_result returns when handle_message raised: the failed result is
\* built and dropped (user.py:64-65 has no return), so the method returns None
UserHandleMessageRaised(interaction) == [type |-> "None"]

(* ---------------------- FunctionCall, NestedConversation --------------- *)
\* FunctionCall.passed / failed / skipped
FunctionCallResult(interaction, status, execution_error) ==
    [type |-> "function_call", data |-> interaction, status |-> status,
     execution_error |-> execution_error]

\* C18 mutant: an exception of the adapter's function is swallowed
FunctionCallToResult_RaiseSwallowed(interaction, target_raises) ==
    IF interaction.function \in DefinedFunctions THEN "returns" ELSE "raises"

\* C19 mutant: a name that does not resolve is a silent no-op
FunctionCallToResult_NoLookup(interaction, target_raises) ==
    IF interaction.function \in DefinedFunctions /\ target_raises
    THEN "raises" ELSE "returns"

\* FunctionCall.to_result(adapter): "returns" | "raises"; target_raises is what
\* the adapter's function does when it is called
FunctionCallToResult(interaction, target_raises) ==
    IF interaction.function \in DefinedFunctions
    THEN IF target_raises THEN "raises" ELSE "returns"
    ELSE "raises"

\* NestedConversation.to_result(conversation_results, skipped)
NestedConversationToResult(interaction, conversation_results, skipped) ==
    [type |-> "nested_conversation", data |-> interaction,
     status |-> IF skipped THEN Skipped
                ELSE IF conversation_results.failed THEN Failed
                ELSE Passed,
     results |-> conversation_results]

(* ------------------------------ Result --------------------------------- *)
RECURSIVE AnyFailed(_)
\* some InteractionResult of the list, or of a Result nested in it, is Failed
AnyFailed(results) ==
    \E i \in DOMAIN results :
        \/ results[i].status = Failed
        \/ (results[i].type = "nested_conversation"
            /\ AnyFailed(results[i].results.interaction_results))

\* the Result of one walk; its messages field is the adapter's own list,
\* the variable messages
MakeResult(results) == [failed |-> AnyFailed(results), interaction_results |-> results]

(* ------------------------------- walk ----------------------------------- *)
Frame(interactions, has_failed) ==
    [interactions |-> interactions, pos |-> 1, has_failed |-> has_failed,
     results |-> <<>>, error |-> FALSE]

Top == stack[Len(stack)]
Current == Top.interactions[Top.pos]

AtInteraction(type) ==
    /\ pc = "walk"
    /\ ~Top.error
    /\ Top.pos <= Len(Top.interactions)
    /\ Current.type = type

\* a value that carries a status: an InteractionResult, not None and not a tuple
HasStatus(r) == r.type \notin {"None", "tuple"}

\* has_failed := has_failed or status != Passed; the result is appended
Advance(stk, res) ==
    [stk EXCEPT ![Len(stk)] =
        [@ EXCEPT !.pos = @ + 1,
                  !.results = Append(@, res),
                  !.has_failed = @ \/ res.status # Passed]]

\* the walk takes what to_result returned: reading the status of a value that
\* has none raises inside the try block of test(), and its except clause ends
\* the walk (adapter.py:314, 375-383)
Deliver(res) ==
    /\ stack' = IF HasStatus(res) THEN Advance(stack, res)
                ELSE [stack EXCEPT ![Len(stack)] = [@ EXCEPT !.error = TRUE]]
    /\ pc' = "walk"

\* what the except clause of test() returns: a failed result (errors = [e])
\* with the results gathered so far
ExceptResult(results) == [failed |-> TRUE, interaction_results |-> results]

\* the walk is over: the script is exhausted or the except clause was taken
WalkOver(frame) == frame.error \/ frame.pos > Len(frame.interactions)

\* what test() returns for a walk that is over
WalkResult(frame) ==
    IF frame.error THEN ExceptResult(frame.results) ELSE MakeResult(frame.results)

SetAdapter(a) ==
    /\ messages' = a.messages
    /\ queue' = a.queue
    /\ next_message_index' = a.next_message_index
    /\ metadata' = a.metadata
    /\ collected' = a.collected
    /\ recorded' = a.recorded

\* C22 mutant: the adapter starts with a message already in its log
Init_LogNotEmpty ==
    /\ conversation \in Conversations
    /\ stack = <<Frame(conversation, FALSE)>>
    /\ pc = "walk"
    /\ handling = NoHandling
    /\ events = 0
    /\ messages = <<[index |-> 0, role |-> RoleUser, body |-> UserText, metadata |-> <<>>]>>
    /\ queue = <<>>
    /\ next_message_index = 1
    /\ metadata = EmptyMap
    /\ result = NoResult
    /\ calls = <<>>
    /\ thrown = {}
    /\ collected = EmptyMap
    /\ recorded = <<>>
    /\ answered = <<>>
    /\ checking = NoChecking
    /\ run = FirstRun
    /\ timing = NoTiming
    /\ heap = NoHeap
    /\ decoding = NoDecoding

Init ==
    /\ conversation \in Conversations
    /\ stack = <<Frame(conversation, FALSE)>>
    /\ pc = "walk"
    /\ handling = NoHandling
    /\ events = 0
    /\ messages = <<>>
    /\ queue = <<>>
    /\ next_message_index = 0
    /\ metadata = EmptyMap
    /\ result = NoResult
    /\ calls = <<>>
    /\ thrown = {}
    /\ collected = EmptyMap
    /\ recorded = <<>>
    /\ answered = <<>>
    /\ checking = NoChecking
    /\ run = FirstRun
    /\ timing = NoTiming
    /\ heap = NoHeap
    /\ decoding = NoDecoding

\* a UserMessage is reached: UserMessage.to_result up to the call of
\* handle_message, which appends the User message before calling the chatbot
UserMessageStep ==
    /\ AtInteraction("user_message")
    /\ LET i == Current
           skipped == Top.has_failed
           next_chatbot_message == NextQueued(AdapterState)
           a1 == Dequeued(AdapterState)
       IN  IF skipped
           THEN /\ Deliver(UserSkipped(i))
                /\ SetAdapter(a1)
                /\ UNCHANGED <<handling, calls, thrown>>
           ELSE IF Truthy(next_chatbot_message)
           THEN /\ Deliver(UserUnexpected(i, next_chatbot_message))
                /\ SetAdapter(a1)
                /\ UNCHANGED <<handling, calls, thrown>>
           ELSE \E generation \in (IF i.generated THEN {"text", "error"} ELSE {"none"}) :
                  IF generation = "error"
                  THEN /\ Deliver(UserGenerationError(i))
                       /\ SetAdapter(a1)
                       /\ calls' = Append(calls, "client")
                       /\ thrown' = thrown \cup {"client"}
                       /\ UNCHANGED handling
                  ELSE LET user_message == IF i.generated THEN GeneratedText ELSE i.text
                       IN  /\ SetAdapter(_add_message(a1, RoleUser, user_message))
                           /\ handling' = [user_message |-> user_message, pushed |-> <<>>]
                           /\ calls' = (IF i.generated THEN Append(calls, "client") ELSE calls)
                                       \o <<"handle_message">>
                           /\ pc' = "handling"
                           /\ UNCHANGED <<stack, thrown>>
    /\ UNCHANGED <<answered, checking, heap, decoding, run, timing, conversation, events, result>>

\* the chatbot calls credence.collect_metadata({key: value}) from handle_message
CollectMetadata ==
    /\ pc = "handling"
    /\ events < MaxEvents
    /\ \E key \in Keys, value \in Values :
          /\ metadata' = set_value(metadata, key, value)
          /\ collected' = set_value(collected, key, value)
    /\ events' = events + 1
    /\ UNCHANGED <<answered, checking, heap, decoding, run, timing, conversation, stack, pc, handling, messages, queue, next_message_index,
                   result, calls, thrown, recorded>>

\* the chatbot calls Adapter.record_chatbot_message from handle_message
RecordChatbotMessage ==
    /\ pc = "handling"
    /\ events < MaxEvents
    /\ \E body \in Bodies :
          /\ SetAdapter(_add_message(AdapterState, RoleChatbot, body))
          /\ handling' = [handling EXCEPT !.pushed = Append(@, body)]
    /\ events' = events + 1
    /\ UNCHANGED <<answered, checking, heap, decoding, run, timing, conversation, stack, pc, result, calls, thrown>>

\* handle_message returns: a truthy reply is recorded, and to_result passes
HandleMessageReturns ==
    /\ pc = "handling"
    /\ \E chatbot_response \in Bodies \cup {None} :
          /\ SetAdapter(IF Truthy(chatbot_response)
                        THEN _add_message(AdapterState, RoleChatbot, chatbot_response)
                        ELSE AdapterState)
          /\ Deliver(UserPassed(Current, handling.user_message, chatbot_response))
    /\ handling' = NoHandling
    /\ UNCHANGED <<answered, checking, heap, decoding, run, timing, conversation, events, result, calls, thrown>>

\* handle_message raises: to_result catches the exception and returns None
HandleMessageRaises ==
    /\ pc = "handling"
    /\ Deliver(UserHandleMessageRaised(Current))
    /\ handling' = NoHandling
    /\ thrown' = thrown \cup {"handle_message"}
    /\ UNCHANGED <<answered, checking, heap, decoding, run, timing, conversation, events, messages, queue, next_message_index, metadata,
                   result, calls, collected, recorded>>

\* a ChatbotResponds is reached
ChatbotRespondsStep ==
    /\ AtInteraction("chatbot_responds")
    /\ LET i == Current
           chatbot_response == NextQueued(AdapterState)
           a1 == Dequeued(AdapterState)
           skipped == RespondsSkipped(Top.has_failed, chatbot_response)
       IN  \E answers \in AIAnswers(i.expectations, skipped) :
              /\ Deliver(ChatbotRespondsToResult(i, Top.has_failed, a1.metadata,
                                                 chatbot_response, answers))
              /\ SetAdapter([a1 EXCEPT !.metadata = clear(@)])
              /\ calls' = calls \o ClientCalls(i.expectations, answers)
              /\ thrown' = IF \E k \in DOMAIN answers :
                                 /\ answers[k] # <<>>
                                 /\ Evaluation(i.expectations[k], answers[k]).answer = "error"
                           THEN thrown \cup {"client"} ELSE thrown
              /\ answered' = answers
    /\ UNCHANGED <<checking, heap, decoding, run, timing, conversation, handling, events, result>>

\* a ChatbotIgnoresMessage is reached
ChatbotIgnoresStep ==
    /\ AtInteraction("chatbot_ignores")
    /\ LET i == Current
           next_message == NextQueued(AdapterState)
       IN  /\ Deliver(IF Top.has_failed
                      THEN IgnoresResult(i, Skipped, None)
                      ELSE ChatbotIgnoresToResult(i, next_message))
           /\ SetAdapter(Dequeued(AdapterState))
    /\ UNCHANGED <<answered, checking, heap, decoding, run, timing, conversation, handling, events, result, calls, thrown>>

\* a FunctionCall is reached
FunctionCallStep ==
    /\ AtInteraction("function_call")
    /\ LET i == Current
       IN  IF Top.has_failed
           THEN /\ Deliver(FunctionCallResult(i, Skipped, None))
                /\ UNCHANGED <<calls, thrown>>
           ELSE \E target_raises \in (IF i.function \in DefinedFunctions
                                      THEN BOOLEAN ELSE {FALSE}) :
                  /\ Deliver(IF FunctionCallToResult(i, target_raises) = "returns"
                             THEN FunctionCallResult(i, Passed, None)
                             ELSE FunctionCallResult(i, Failed, "trace"))
                  /\ calls' = IF i.function \in DefinedFunctions
                              THEN Append(calls, "function") ELSE calls
                  /\ thrown' = IF target_raises THEN thrown \cup {"function"} ELSE thrown
    /\ UNCHANGED <<answered, checking, heap, decoding, run, timing, conversation, handling, events, messages, queue, next_message_index,
                   metadata, result, collected, recorded>>

\* a NestedConversation is reached: test() runs on the inner conversation
EnterNested ==
    /\ AtInteraction("nested_conversation")
    /\ stack' = Append(stack, Frame(Current.conversation, Top.has_failed))
    /\ UNCHANGED <<answered, checking, heap, decoding, run, timing, conversation, pc, handling, events, messages, queue, next_message_index,
                   metadata, result, calls, thrown, collected, recorded>>

\* the inner walk is over: its Result goes to NestedConversation.to_result
ReturnNested ==
    /\ pc = "walk"
    /\ Len(stack) > 1
    /\ WalkOver(Top)
    /\ LET outer == SubSeq(stack, 1, Len(stack) - 1)
           frame == outer[Len(outer)]
           res == NestedConversationToResult(frame.interactions[frame.pos],
                                             WalkResult(Top), frame.has_failed)
       IN  stack' = Advance(outer, res)
    /\ UNCHANGED <<answered, checking, heap, decoding, run, timing, conversation, pc, handling, events, messages, queue, next_message_index,
                   metadata, result, calls, thrown, collected, recorded>>

\* the outermost walk is over: test() returns the Result
ReturnResult ==
    /\ pc = "walk"
    /\ Len(stack) = 1
    /\ WalkOver(Top)
    /\ result' = WalkResult(Top)
    /\ pc' = "done"
    /\ UNCHANGED <<answered, checking, heap, decoding, run, timing, conversation, stack, handling, events, messages, queue, next_message_index,
                   metadata, calls, thrown, collected, recorded>>

Next ==
    \/ UserMessageStep
    \/ CollectMetadata
    \/ RecordChatbotMessage
    \/ HandleMessageReturns
    \/ HandleMessageRaises
    \/ ChatbotRespondsStep
    \/ ChatbotIgnoresStep
    \/ FunctionCallStep
    \/ EnterNested
    \/ ReturnNested
    \/ ReturnResult

Spec == Init /\ [][Next]_vars

(* --------------------- a check evaluated on its own -------------------- *)
\* the operations the string builders of both classes share
StringOperations == {"equals", "not_equals", "contains", "not_contains"}

\* raw metadata values, and the lists one_of is given
PyValues == {PyStr(t) : t \in Texts(1)} \cup {PyStr("1"), PyInt(1), PyInt(2), PyFloat(1)}
AllowedLists == {<<>>, <<PyInt(1), PyInt(2)>>, <<PyStr("1")>>, <<PyStr("a"), PyFloat(1)>>}

\* a builder call to make, the value to evaluate the check on, the skipped flag
\* and the answers the evaluator would give
Checking(builder, value, skipped, answers) ==
    [builder |-> builder, call |-> Pending, value |-> value, skipped |-> skipped,
     answers |-> answers, results |-> <<>>]

ResponseBuilder(operation, argument) ==
    [class |-> "Response", operation |-> operation, argument |-> argument]
MetadataBuilder(operation, argument) ==
    [class |-> "Metadata", field |-> "chatbot.handler", operation |-> operation,
     argument |-> argument]
DirectBuilder(operation, argument) ==
    [class |-> "ChatbotResponseMetadataCheck", field |-> "chatbot.handler",
     operation |-> operation, argument |-> argument]

\* the adapter is constructed and test() is not called
CheckInit ==
    /\ conversation = <<>>
    /\ stack = <<Frame(conversation, FALSE)>>
    /\ pc = "walk"
    /\ handling = NoHandling
    /\ events = 0
    /\ messages = <<>>
    /\ queue = <<>>
    /\ next_message_index = 0
    /\ metadata = EmptyMap
    /\ result = NoResult
    /\ calls = <<>>
    /\ thrown = {}
    /\ collected = EmptyMap
    /\ recorded = <<>>
    /\ answered = <<>>
    /\ heap = NoHeap
    /\ decoding = NoDecoding
    /\ run = FirstRun
    /\ timing = NoTiming
    /\ \E skipped \in BOOLEAN :
          \/ \E o \in StringOperations, s \in Texts(MaxLen), t \in Texts(MaxLen) :
                checking = Checking(ResponseBuilder(o, s), t, skipped, <<>>)
          \/ \E r \in Regexps(MaxLen), t \in Texts(MaxLen) :
                checking = Checking(ResponseBuilder("regex_match", r), t, skipped, <<>>)
          \/ \E n \in 0..MaxRetries, a \in AnswerStreams(MaxRetries + 1) :
                checking = Checking(ResponseBuilder("ai_check", n), "", skipped, a)
          \/ \E o \in StringOperations \ {"not_contains"}, t \in Texts(MaxLen) :
                \E s \in {PyStr(u) : u \in Texts(MaxLen)} \cup {PyInt(1)} :
                    checking = Checking(MetadataBuilder(o, s), t, skipped, <<>>)
          \/ \E s \in Texts(MaxLen), t \in Texts(MaxLen) :
                checking = Checking(DirectBuilder("not_contains", s), t, skipped, <<>>)
          \/ \E r \in Regexps(MaxLen), t \in Texts(MaxLen) :
                checking = Checking(MetadataBuilder("regex_match", r), t, skipped, <<>>)
          \/ \E l \in AllowedLists, v \in PyValues :
                checking = Checking(MetadataBuilder("one_of", l), v, skipped, <<>>)

\* the builder is called
Construct ==
    /\ checking.call.outcome = "pending"
    /\ checking' = [checking EXCEPT !.call = Build(checking.builder)]
    /\ UNCHANGED <<heap, decoding, run, timing, conversation, stack, pc, handling, events, messages, queue,
                   next_message_index, metadata, result, calls, thrown, collected,
                   recorded, answered>>

\* is the value the builder returned a check of this type, to be evaluated again
Evaluable(type) ==
    /\ checking.call.outcome = "returned"
    /\ checking.call.value.type = type
    /\ Len(checking.results) < MaxEvaluations

\* C29 mutant: the evaluation leaves its outcome in the check's stored value
Evaluated_Marked(c, check_result) ==
    [c EXCEPT !.results = Append(@, check_result),
              !.call.value.value = check_result.status]

\* the caller's objects once to_check_result has returned: the result is new
\* (it holds a deep copy of the check), no field of the check is assigned
\* and the value is only read
Evaluated(c, check_result) == [c EXCEPT !.results = Append(@, check_result)]

\* check.to_check_result(value, skipped) on a message check
EvaluateMessageCheck ==
    /\ Evaluable("message_check")
    /\ checking' = Evaluated(checking,
                          MessageCheckResult(checking.call.value, checking.value, checking.skipped))
    /\ UNCHANGED <<heap, decoding, run, timing, conversation, stack, pc, handling, events, messages, queue,
                   next_message_index, metadata, result, calls, thrown, collected,
                   recorded, answered>>

\* check.to_check_result(value, skipped) on a metadata check
EvaluateMetadataCheck ==
    /\ Evaluable("metadata_check")
    /\ checking' = Evaluated(checking,
                          MetadataCheckResult(checking.call.value, checking.value, checking.skipped))
    /\ UNCHANGED <<heap, decoding, run, timing, conversation, stack, pc, handling, events, messages, queue,
                   next_message_index, metadata, result, calls, thrown, collected,
                   recorded, answered>>

\* check.to_check_result(messages, adapter, skipped) on an AI check
EvaluateAICheck ==
    /\ Evaluable("ai_check")
    /\ checking' = Evaluated(checking,
                          AICheckResult(checking.call.value, checking.answers, checking.skipped))
    /\ calls' = calls \o ClientCalls(<<checking.call.value>>,
                                     <<IF checking.skipped THEN <<>>
                                       ELSE checking.answers>>)
    /\ UNCHANGED <<heap, decoding, run, timing, conversation, stack, pc, handling, events, messages, queue,
                   next_message_index, metadata, result, thrown, collected,
                   recorded, answered>>

CheckNext ==
    \/ Construct
    \/ EvaluateMessageCheck
    \/ EvaluateMetadataCheck
    \/ EvaluateAICheck

CheckSpec == CheckInit /\ [][CheckNext]_vars

(* ------------------------- Conversation.nested ------------------------- *)
\* Objects live in heap.objects and are referred to by their index. A
\* Conversation object holds the references of its interactions, an
\* interaction object holds its fields; heap.roots are the conversations the
\* program holds: the original, then the one inside each NestedConversation.

\* the interactions a conversation is built of and changed to
Fields == {UserMessage(FALSE), ChatbotIgnoresMessage}

\* the objects of Conversation(title, interactions), the Conversation last
NewConversation(interactions) ==
    [k \in DOMAIN interactions |-> [class |-> "Interaction", data |-> interactions[k]]]
    \o <<[class |-> "Conversation",
          interactions |-> [k \in DOMAIN interactions |-> k]]>>

\* C30 mutant: the conversation itself is stored
deepcopy_Alias(objects, id) == [objects |-> objects, id |-> id]

\* copy.deepcopy(conversation): new objects for the conversation and for every
\* interaction it refers to
deepcopy(objects, id) ==
    LET interactions == objects[id].interactions
        base == Len(objects)
    IN  [objects |-> objects
                     \o [k \in DOMAIN interactions |-> objects[interactions[k]]]
                     \o <<[class |-> "Conversation",
                           interactions |-> [k \in DOMAIN interactions |-> base + k]]>>,
         id |-> base + Len(interactions) + 1]

\* Conversation.nested(name, conversation)
nested(h, name, argument) ==
    IF argument.class # "Conversation"
    THEN [h EXCEPT !.call = [argument |-> argument, outcome |-> "raised"]]
    ELSE LET copy == deepcopy(h.objects, argument.id)
         IN  [h EXCEPT !.objects = copy.objects,
                       !.roots = Append(@, [name |-> name, conversation |-> copy.id]),
                       !.call = [argument |-> argument, outcome |-> "returned"]]

\* the interactions seen through a conversation reference
Seen(h, id) ==
    [k \in DOMAIN h.objects[id].interactions |->
        h.objects[h.objects[id].interactions[k]].data]

\* the conversation is constructed; no walk is in progress
NestInit ==
    /\ conversation = <<>>
    /\ stack = <<Frame(conversation, FALSE)>>
    /\ pc = "walk"
    /\ handling = NoHandling
    /\ events = 0
    /\ messages = <<>>
    /\ queue = <<>>
    /\ next_message_index = 0
    /\ metadata = EmptyMap
    /\ result = NoResult
    /\ calls = <<>>
    /\ thrown = {}
    /\ collected = EmptyMap
    /\ recorded = <<>>
    /\ answered = <<>>
    /\ checking = NoChecking
    /\ run = FirstRun
    /\ timing = NoTiming
    /\ decoding = NoDecoding
    /\ \E n \in 0..MaxInteractions : \E interactions \in [1..n -> Fields] :
          heap = [objects |-> NewConversation(interactions),
                  roots |-> <<[name |-> "original", conversation |-> n + 1]>>,
                  call |-> NoCall]

\* Conversation.nested is called on the original conversation
NestConversation ==
    /\ Len(heap.roots) <= MaxNestings
    /\ heap' = nested(heap, "nested",
                      [class |-> "Conversation", id |-> heap.roots[1].conversation])
    /\ UNCHANGED <<run, timing, conversation, stack, pc, handling, events, messages, queue,
                   next_message_index, metadata, result, calls, thrown, collected,
                   recorded, answered, checking, decoding>>

\* Conversation.nested is called on the list of interactions, not a Conversation
NestInvalid ==
    /\ heap' = nested(heap, "nested", [class |-> "list", id |-> 0])
    /\ UNCHANGED <<run, timing, conversation, stack, pc, handling, events, messages, queue,
                   next_message_index, metadata, result, calls, thrown, collected,
                   recorded, answered, checking, decoding>>

\* an interaction is appended to the original conversation
AppendInteraction ==
    /\ \E field \in Fields :
          LET id == heap.roots[1].conversation
          IN  /\ Len(heap.objects[id].interactions) < MaxInteractions
              /\ heap' = [heap EXCEPT
                            !.objects = [Append(@, [class |-> "Interaction",
                                                    data |-> field])
                                           EXCEPT ![id].interactions =
                                                      Append(@, Len(heap.objects) + 1)]]
    /\ UNCHANGED <<run, timing, conversation, stack, pc, handling, events, messages, queue,
                   next_message_index, metadata, result, calls, thrown, collected,
                   recorded, answered, checking, decoding>>

\* a field of an interaction of a conversation the program holds is assigned
ChangeInteraction ==
    /\ \E r \in DOMAIN heap.roots, field \in Fields :
          LET id == heap.roots[r].conversation
          IN  \E k \in DOMAIN heap.objects[id].interactions :
                 /\ heap.objects[heap.objects[id].interactions[k]].data # field
                 /\ heap' = [heap EXCEPT
                               !.objects[heap.objects[id].interactions[k]].data = field]
    /\ UNCHANGED <<run, timing, conversation, stack, pc, handling, events, messages, queue,
                   next_message_index, metadata, result, calls, thrown, collected,
                   recorded, answered, checking, decoding>>

NestNext ==
    \/ NestConversation
    \/ NestInvalid
    \/ AppendInteraction
    \/ ChangeInteraction

NestSpec == NestInit /\ [][NestNext]_vars

(* ------------------------- reading the results ------------------------- *)
RECURSIVE FlatResults(_)
\* the InteractionResults of a list in depth-first script order, a
\* NestedConversationResult before the results nested in it
FlatResults(results) ==
    IF results = <<>> THEN <<>>
    ELSE LET r == Head(results)
         IN  <<r>>
             \o (IF r.type = "nested_conversation"
                 THEN FlatResults(r.results.interaction_results) ELSE <<>>)
             \o FlatResults(Tail(results))

RECURSIVE StackResults(_)
\* every result produced so far in the run, in depth-first script order
StackResults(stk) ==
    IF stk = <<>> THEN <<>>
    ELSE FlatResults(Head(stk).results) \o StackResults(Tail(stk))

Trace == StackResults(stack)

IsLeaf(r) == r.type # "nested_conversation"

\* the step appended a result to the walk's results, and that result
Appended == Len(stack'[Len(stack)].results) = Len(Top.results) + 1
Produced == stack'[Len(stack)].results[Len(stack'[Len(stack)].results)]

\* the walk that reached position i of Trace had has_failed = FALSE
ReachedUnfailed(i) == \A j \in 1..(i - 1) : IsLeaf(Trace[j]) => Trace[j].status = Passed

(* ------------------------------ claims ---------------------------------- *)

\* C1: once a (non-nested) interaction's result is Failed, every result that
\* comes later in depth-first script order, inside nested conversations
\* entered afterwards too, has status Skipped.
C1_SkipPropagation ==
    \A i, j \in DOMAIN Trace :
        (i < j /\ IsLeaf(Trace[i]) /\ Trace[i].status = Failed)
            => Trace[j].status = Skipped

RECURSIVE ResultsMatch(_, _)
\* one result per interaction, in script order, recursively
ResultsMatch(interactions, results) ==
    /\ Len(results) = Len(interactions)
    /\ \A i \in DOMAIN interactions :
          /\ results[i].type = interactions[i].type
          /\ results[i].data = interactions[i]
          /\ interactions[i].type = "nested_conversation"
                => ResultsMatch(interactions[i].conversation,
                                results[i].results.interaction_results)

\* C2: the Result test() returns holds exactly one InteractionResult per
\* Interaction of the conversation, in script order, recursively for nested
\* conversations, also when an interaction failed part-way.
C2_OneResultPerInteraction ==
    pc = "done" => ResultsMatch(conversation, result.interaction_results)

RECURSIVE FailedFlagsRight(_)
\* failed is right in a Result and in every Result nested in it
FailedFlagsRight(res) ==
    /\ res.failed <=> (\E i \in DOMAIN FlatResults(res.interaction_results) :
                          FlatResults(res.interaction_results)[i].status = Failed)
    /\ \A i \in DOMAIN res.interaction_results :
          res.interaction_results[i].type = "nested_conversation"
              => FailedFlagsRight(res.interaction_results[i].results)

\* C3: Result.failed is true iff some InteractionResult contained in the
\* Result, at any nesting depth, has status Failed.
C3_FailedIffSomeFailed == pc = "done" => FailedFlagsRight(result)

\* C4: test() never raises because of the chatbot: every run ends with test()
\* returning, and when handle_message, an adapter function or the client raised
\* during the run the returned Result has failed = TRUE.
C4_ChatbotErrorsAreRecovered ==
    /\ ~(ENABLED Next) => pc = "done"
    /\ (pc = "done" /\ thrown # {}) => result.failed

\* C4 witness: test() has returned from a run in which handle_message raised
C4_Witness == pc = "done" /\ "handle_message" \in thrown /\ result.failed

\* C5: a ChatbotResponds run with has_failed = FALSE and no pending chatbot
\* message is Failed, is marked as a missing chatbot message so that an error is
\* reported, and no later interaction passes.
C5_MissingMessageIsReported ==
    \A i \in DOMAIN Trace :
        (Trace[i].type = "chatbot_responds" /\ Trace[i].chatbot_response = None
         /\ ReachedUnfailed(i))
            => /\ Trace[i].status = Failed
               /\ Trace[i].missing_chatbot_message
               /\ RespondsReportsError(Trace[i])
               /\ \A j \in DOMAIN Trace : j > i => Trace[j].status # Passed

\* C6: a UserMessage reached with has_failed = FALSE while a chatbot message is
\* pending is Failed with that message as its detail; handle_message is not
\* called and no User message is appended to the log.
C6_PendingMessageFailsUserMessage ==
    [][(AtInteraction("user_message") /\ ~Top.has_failed /\ queue # <<>>)
          => /\ pc' = "walk"
             /\ Appended
             /\ Produced.type = "user_message"
             /\ Produced.status = Failed
             /\ Produced.unexpected_chatbot_message = Head(queue).body
             /\ calls' = calls
             /\ messages' = messages]_vars

\* C7: with has_failed = FALSE, ChatbotIgnoresMessage yields a
\* ChatbotIgnoresMessageResult that is Passed when no chatbot message is pending
\* and Failed with the pending message as unhandled_message when one is.
C7_IgnoresMessageResult ==
    [][(AtInteraction("chatbot_ignores") /\ ~Top.has_failed)
          => /\ Appended
             /\ Produced.type = "chatbot_ignores"
             /\ IF queue = <<>>
                THEN Produced.status = Passed
                ELSE /\ Produced.status = Failed
                     /\ Produced.unhandled_message = Head(queue).body]_vars

\* C8: after the first Failed interaction of a run, no call is made to
\* handle_message, to a FunctionCall target or to the client.
C8_NoCallsAfterFailure ==
    [][(\E i \in DOMAIN Trace : Trace[i].status = Failed) => calls' = calls]_vars

\* C8 witness: calls were made, an interaction Failed, and an interaction that
\* would have called the chatbot or an adapter function was reached afterwards
C8_Witness ==
    /\ calls # <<>>
    /\ \E i, j \in DOMAIN Trace :
          /\ i < j
          /\ Trace[i].status = Failed
          /\ Trace[j].status = Skipped
          /\ Trace[j].type \in {"user_message", "function_call"}

\* C9: the snapshot of every chatbot message holds exactly the metadata
\* collected before it was recorded and after the chatbot message before it
\* (or the start of the run): nothing collected is missing, nothing is carried
\* over from an earlier turn.
C9_SnapshotIsolation ==
    \A i \in DOMAIN recorded :
        messages[recorded[i].index + 1].metadata = <<recorded[i].collected>>

\* C10: a metadata check that is not skipped is Failed with missing_key = TRUE
\* iff its key is absent from the snapshot of the chatbot message the
\* ChatbotResponds consumed; with the key present and the value not meeting the
\* criterion it is Failed with missing_key = FALSE.
C10_MissingKeyIffAbsent ==
    [][(AtInteraction("chatbot_responds") /\ ~Top.has_failed /\ queue # <<>>)
          => /\ Appended
             /\ \A i \in DOMAIN Current.expectations :
                   Current.expectations[i].type = "metadata_check"
                      => LET e == Current.expectations[i]
                             snapshot == messages[Head(queue).index + 1].metadata[1]
                             c == Produced.checks[i]
                         IN  /\ (c.status = Failed /\ c.missing_key)
                                   <=> (e.key \notin DOMAIN snapshot)
                             /\ (e.key \in DOMAIN snapshot /\ snapshot[e.key] # e.value)
                                   => (c.status = Failed /\ ~c.missing_key)]_vars

\* C11: an AI check with retry budget r whose evaluator does not raise is
\* Passed iff one of the first r + 1 answers is "requirement met", is Failed
\* with the reason iff all r + 1 answers are "not met", and the evaluator is
\* called once per answer up to the first "met" one, at most r + 1 times.
C11_AIRetryBudget ==
    [][(AtInteraction("chatbot_responds") /\ ~Top.has_failed /\ queue # <<>>)
          => \A i \in DOMAIN Current.expectations :
                (/\ Current.expectations[i].type = "ai_check"
                 /\ \A k \in DOMAIN answered'[i] : answered'[i][k] # "error")
                   => LET r == Current.expectations[i].retries
                          s == answered'[i]
                          c == Produced.checks[i]
                          met == {k \in 1..(r + 1) : s[k] = "met"}
                          asked == IF met = {} THEN r + 1
                                   ELSE CHOOSE k \in met : \A m \in met : k <= m
                      IN  /\ c.status = Passed <=> met # {}
                          /\ (c.status = Failed /\ c.unmet_requirement # None) <=> met = {}
                          /\ Len(Current.expectations) = 1
                                => Len(calls') = Len(calls) + asked]_vars

\* the walk of depth d was entered with has_failed = TRUE
EnteredFailed(d) == d > 1 /\ stack[d - 1].has_failed

\* C12: when a nested conversation entered with has_failed = FALSE yields a
\* Result with failed = TRUE, the NestedConversation's result is Failed and
\* every later sibling of the outer conversation is Skipped.
C12_NestedFailureSkipsSiblings ==
    \A d \in DOMAIN stack :
        LET rs == stack[d].results
        IN  \A i \in DOMAIN rs :
               (/\ rs[i].type = "nested_conversation"
                /\ rs[i].results.failed
                /\ ~EnteredFailed(d)
                /\ \A k \in 1..(i - 1) : rs[k].status = Passed)
                  => /\ rs[i].status = Failed
                     /\ \A j \in DOMAIN rs : j > i => rs[j].status = Skipped

RECURSIVE Inlined(_)
\* the conversation with every nested conversation's interactions in place
Inlined(conv) ==
    IF conv = <<>> THEN <<>>
    ELSE (IF Head(conv).type = "nested_conversation"
          THEN Inlined(Head(conv).conversation) ELSE <<Head(conv)>>)
         \o Inlined(Tail(conv))

RECURSIVE InlinedBefore(_)
\* the interactions of Inlined(conversation) that come before the one the
\* walk is at
InlinedBefore(stk) ==
    IF stk = <<>> THEN <<>>
    ELSE Inlined(SubSeq(Head(stk).interactions, 1, Head(stk).pos - 1))
         \o InlinedBefore(Tail(stk))

\* the results of the non-nested interactions, in script order
LeafTrace == SelectSeq(Trace, IsLeaf)

ChatbotEntries ==
    LET IsChatbot(m) == m.role = RoleChatbot
        log == SelectSeq(messages, IsChatbot)
    IN  [j \in DOMAIN log |-> [index |-> log[j].index, body |-> log[j].body]]

\* the number of chatbot messages consumed so far
Consumed == Len(ChatbotEntries) - Len(queue)

\* an interaction that takes the next chatbot message is reached
AtConsumer ==
    \/ AtInteraction("user_message")
    \/ AtInteraction("chatbot_responds")
    \/ AtInteraction("chatbot_ignores")

\* C14: the queue holds exactly the chatbot messages of the log that have not
\* been consumed, in the order they were recorded (it is the log's chatbot
\* messages without the consumed ones, which are the oldest); a consuming
\* interaction removes the oldest pending message, or finds the queue empty and
\* leaves it so, and a consumed message never comes back.
C14_QueueIsUnconsumedSuffix ==
    [][/\ Consumed \in 0..Len(ChatbotEntries)
       /\ queue = SubSeq(ChatbotEntries, Consumed + 1, Len(ChatbotEntries))
       /\ queue' = SubSeq(ChatbotEntries', Consumed' + 1, Len(ChatbotEntries'))
       /\ Consumed' >= Consumed
       /\ AtConsumer => queue' = (IF queue = <<>> THEN <<>> ELSE Tail(queue))
       /\ ~AtConsumer => Consumed' = Consumed]_vars

\* C14 witness: a chatbot message has been consumed while a later one is pending
C14_Witness == Consumed > 0 /\ queue # <<>>

\* the log is numbered from 0 and next_message_index is its length
IndexOrdered(log, next) ==
    /\ next = Len(log)
    /\ \A k \in DOMAIN log : log[k].index = k - 1

\* C15: the message log is index-ordered and append-only: the k-th message has
\* index k counting from 0, next_message_index is the number of messages, a
\* step records at most one message and leaves every earlier entry as it was,
\* and the User message of a turn is recorded once, when handle_message is
\* called with it.
C15_LogIsAppendOnly ==
    [][/\ IndexOrdered(messages, next_message_index)
       /\ IndexOrdered(messages', next_message_index')
       /\ Len(messages') \in {Len(messages), Len(messages) + 1}
       /\ SubSeq(messages', 1, Len(messages)) = messages
       /\ (pc = "walk" /\ pc' = "handling")
             => /\ Len(messages') = Len(messages) + 1
                /\ messages'[Len(messages')].role = RoleUser
                /\ messages'[Len(messages')].body = handling'.user_message]_vars

\* C15 witness: a User message and two Chatbot messages are in the log
C15_Witness ==
    /\ Len(messages) >= 3
    /\ messages[1].role = RoleUser
    /\ messages[2].role = RoleChatbot
    /\ messages[3].role = RoleChatbot

C17_ReplyIsRecorded ==
    [][(pc = "handling" /\ pc' = "walk" /\ Appended)
          => LET reply == Produced.chatbot_response
             IN  IF reply # None
                 THEN /\ Len(messages') = Len(messages) + 1
                      /\ messages'[Len(messages')].role = RoleChatbot
                      /\ messages'[Len(messages')].body = reply
                      /\ queue' = Append(queue, [index |-> next_message_index,
                                                 body |-> reply])
                 ELSE /\ messages' = messages
                      /\ queue' = queue]_vars

Unresolved(r) == r.type = "function_call" /\ r.data.function \notin DefinedFunctions

C20_HandleMessageErrorIsFailed ==
    [][(pc = "handling" /\ "handle_message" \in thrown' /\ "handle_message" \notin thrown)
          => /\ Appended
             /\ Produced.type = "user_message"
             /\ Produced.data = Current
             /\ Produced.status = Failed
             /\ Produced.handle_message_error # None]_vars

\* C21: when the client raises while a user message is generated, the
\* UserMessage's result is Failed with the error in generation_error,
\* handle_message is not called, nothing is appended to the log, and the walk
\* goes on to the next interaction.
C21_GenerationErrorIsFailed ==
    [][(AtInteraction("user_message") /\ Current.generated
        /\ "client" \in thrown' /\ "client" \notin thrown)
          => /\ pc' = "walk"
             /\ ~stack'[Len(stack)].error
             /\ Appended
             /\ Produced.type = "user_message"
             /\ Produced.data = Current
             /\ Produced.status = Failed
             /\ Produced.generation_error # None
             /\ calls' = Append(calls, "client")
             /\ messages' = messages]_vars

\* C21 witness: the client raised during generation, the UserMessage is Failed
\* with the generation error and handle_message was never called
C21_Witness ==
    /\ thrown = {"client"}
    /\ calls = <<"client">>
    /\ Len(Trace) = 1
    /\ Trace[1].type = "user_message"
    /\ Trace[1].status = Failed
    /\ Trace[1].generation_error # None

C23_NoChecksPassIffPending ==
    [][(AtInteraction("chatbot_responds") /\ ~Top.has_failed
        /\ Current.expectations = <<>>)
          => /\ Appended
             /\ Produced.type = "chatbot_responds"
             /\ Produced.status = (IF queue # <<>> THEN Passed ELSE Failed)
             /\ queue # <<>> => Produced.chatbot_response = Head(queue).body]_vars

\* C23 witness: a ChatbotResponds with no checks passed on a pending message
\* with the empty body
C23_Witness ==
    \E i \in DOMAIN Trace :
        /\ Trace[i].type = "chatbot_responds"
        /\ Trace[i].data.expectations = <<>>
        /\ Trace[i].chatbot_response = ""
        /\ Trace[i].status = Passed

\* the conversation alternates User.message and Chatbot.responds
Alternating(conv) ==
    /\ conv # <<>>
    /\ Len(conv) % 2 = 0
    /\ \A i \in DOMAIN conv :
          IF i % 2 = 1
          THEN conv[i].type = "user_message" /\ ~conv[i].generated
          ELSE conv[i].type = "chatbot_responds"

\* in the run the chatbot answered every message it was sent by returning a
\* reply text from handle_message, and sent nothing else
RepliedToAll ==
    /\ "handle_message" \notin thrown
    /\ \A i \in DOMAIN Trace :
          (Trace[i].type = "user_message" /\ Trace[i].status = Passed)
             => Truthy(Trace[i].chatbot_response)
    /\ Len(ChatbotEntries)
          = Cardinality({i \in DOMAIN Trace :
                           Trace[i].type = "user_message" /\ Trace[i].status = Passed})

\* no check evaluated in the run found its requirement unmet
ChecksHeld ==
    \A i \in DOMAIN Trace :
        Trace[i].type = "chatbot_responds"
           => \A k \in DOMAIN Trace[i].checks : Trace[i].checks[k].status # Failed

Dangling == 0

\* one serialized interaction: a user message, or a reference to an entry
SerializedUserMessage == [type |-> "user_message", generated |-> FALSE]
SerializedNested(conversation_id) ==
    [type |-> "nested_conversation", conversation_id |-> conversation_id]

\* the interactions of an entry of a list of at most n entries
EntryInteractions(n) ==
    {<<>>, <<SerializedUserMessage>>}
    \cup {<<SerializedNested(r)>> : r \in Dangling..n}
    \cup {<<SerializedNested(r[1]), SerializedNested(r[2])>> :
              r \in {p \in (Dangling..n) \X (Dangling..n) : p[1] < p[2]}}

Entry(id, interactions) ==
    [id |-> id, latest_version |-> [id |-> id, name |-> id, interactions |-> interactions]]

\* the lists decode_conversations is given: entries with ids of their own
DataLists ==
    UNION {{data \in [1..k -> {Entry(id, i) : id \in 1..MaxEntries,
                                              i \in EntryInteractions(MaxEntries)}] :
               \A a \in 1..k, b \in 1..k : data[a].id = data[b].id => a = b} :
           k \in 0..MaxEntries}

\* Conversation(id=, version_id=, title=, interactions=)
Conversation(id, version_id, title, interactions) ==
    [id |-> id, version_id |-> version_id, title |-> title, interactions |-> interactions]

\* raw_lookup[cid]
raw_lookup(data, cid) == data[CHOOSE k \in DOMAIN data : data[k].id = cid]

\* `nid in decoded`, decoded being the dict in insertion order
InDecoded(decoded, nid) == \E k \in DOMAIN decoded : decoded[k].id = nid

\* decoded.get(nid)
Lookup(decoded, nid) == decoded[CHOOSE k \in DOMAIN decoded : decoded[k].id = nid]

\* nested_ids of an entry
nested_ids(entry) ==
    {entry.latest_version.interactions[k].conversation_id :
        k \in {j \in DOMAIN entry.latest_version.interactions :
                  entry.latest_version.interactions[j].type = "nested_conversation"}}

\* C32 mutant: an entry is decoded whether or not what it nests is decoded
Ready_Always(entry, decoded) == TRUE

\* all(nid in decoded for nid in nested_ids)
Ready(entry, decoded) == \A nid \in nested_ids(entry) : InDecoded(decoded, nid)

\* _decode_interaction(data, conversation_lookup); Conversation.nested gives
\* the NestedConversation a copy of the decoded conversation
_decode_interaction(data, conversation_lookup) ==
    IF data.type = "user_message" THEN UserMessage(data.generated)
    ELSE IF ~InDecoded(conversation_lookup, data.conversation_id)
         THEN [type |-> "ValueError"]
    ELSE NestedConversation(Lookup(conversation_lookup, data.conversation_id))

\* the orders in which list(remaining) may give the ids of a set
Orders(remaining) ==
    {order \in [1..Cardinality(remaining) -> remaining] :
        \A a \in DOMAIN order, b \in DOMAIN order : order[a] = order[b] => a = b}

\* C31 mutant: a pass that decoded nothing is followed by another pass
NoProgress_Ignored(d) == FALSE

\* `if not progress` at the end of a pass
NoProgress(d) == ~d.progress

\* the list is given to decode_conversations; no walk is in progress
DecodeInit ==
    /\ conversation = <<>>
    /\ stack = <<Frame(conversation, FALSE)>>
    /\ pc = "walk"
    /\ handling = NoHandling
    /\ events = 0
    /\ messages = <<>>
    /\ queue = <<>>
    /\ next_message_index = 0
    /\ metadata = EmptyMap
    /\ result = NoResult
    /\ calls = <<>>
    /\ thrown = {}
    /\ collected = EmptyMap
    /\ recorded = <<>>
    /\ answered = <<>>
    /\ checking = NoChecking
    /\ run = FirstRun
    /\ timing = NoTiming
    /\ heap = NoHeap
    /\ \E data \in DataLists :
          decoding = [pc |-> "while", data |-> data, decoded |-> <<>>,
                      remaining |-> {data[k].id : k \in DOMAIN data},
                      order |-> <<>>, progress |-> FALSE,
                      at_start |-> {}, passes |-> 0, error |-> None,
                      returned |-> None]

\* `while remaining:` is true: a pass starts over list(remaining)
BeginPass ==
    /\ decoding.pc = "while"
    /\ decoding.remaining # {}
    /\ \E order \in Orders(decoding.remaining) :
          decoding' = [decoding EXCEPT !.pc = "for", !.order = order,
                                       !.progress = FALSE,
                                       !.at_start = decoding.remaining,
                                       !.passes = @ + 1]
    /\ UNCHANGED <<run, timing, conversation, stack, pc, handling, events, messages, queue,
                   next_message_index, metadata, result, calls, thrown, collected,
                   recorded, answered, checking, heap>>

\* one iteration of `for cid in list(remaining)`
VisitEntry ==
    /\ decoding.pc = "for"
    /\ decoding.order # <<>>
    /\ LET cid == Head(decoding.order)
           entry == raw_lookup(decoding.data, cid)
           interactions ==
               [k \in DOMAIN entry.latest_version.interactions |->
                   _decode_interaction(entry.latest_version.interactions[k],
                                       decoding.decoded)]
       IN  IF ~Ready(entry, decoding.decoded)
           THEN decoding' = [decoding EXCEPT !.order = Tail(@)]
           ELSE IF \E k \in DOMAIN interactions : interactions[k].type = "ValueError"
                THEN decoding' = [decoding EXCEPT !.pc = "raised",
                                                  !.error = "ValueError"]
           ELSE decoding' =
                    [decoding EXCEPT
                        !.decoded = Append(@, Conversation(entry.id,
                                                           entry.latest_version.id,
                                                           entry.latest_version.name,
                                                           interactions)),
                        !.remaining = @ \ {cid},
                        !.progress = TRUE,
                        !.order = Tail(@)]
    /\ UNCHANGED <<run, timing, conversation, stack, pc, handling, events, messages, queue,
                   next_message_index, metadata, result, calls, thrown, collected,
                   recorded, answered, checking, heap>>

\* the pass is over: without progress the dependencies cannot be resolved
EndPass ==
    /\ decoding.pc = "for"
    /\ decoding.order = <<>>
    /\ decoding' = IF NoProgress(decoding)
                   THEN [decoding EXCEPT !.pc = "raised", !.error = "RuntimeError"]
                   ELSE [decoding EXCEPT !.pc = "while"]
    /\ UNCHANGED <<run, timing, conversation, stack, pc, handling, events, messages, queue,
                   next_message_index, metadata, result, calls, thrown, collected,
                   recorded, answered, checking, heap>>

\* `while remaining:` is false: return list(decoded.values())
ReturnDecoded ==
    /\ decoding.pc = "while"
    /\ decoding.remaining = {}
    /\ decoding' = [decoding EXCEPT !.pc = "returned", !.returned = decoding.decoded]
    /\ UNCHANGED <<run, timing, conversation, stack, pc, handling, events, messages, queue,
                   next_message_index, metadata, result, calls, thrown, collected,
                   recorded, answered, checking, heap>>

DecodeNext ==
    \/ BeginPass
    \/ VisitEntry
    \/ EndPass
    \/ ReturnDecoded

DecodeSpec == DecodeInit /\ [][DecodeNext]_vars

\* the interpreter keeps running the call until it returns or raises
DecodeLiveSpec == DecodeInit /\ [][DecodeNext]_vars /\ WF_vars(DecodeNext)

(* ------------------------- checks on their own ------------------------- *)
\* the check the builder returned, and is it a message or a metadata check
Check == checking.call.value
IsValueCheck ==
    /\ checking.call.outcome = "returned"
    /\ Check.type \in {"message_check", "metadata_check"}

\* check.to_check_result(value, skipped), by the class of the check
to_check_result(check, value, skipped) ==
    IF check.type = "message_check" THEN MessageCheckResult(check, value, skipped)
    ELSE MetadataCheckResult(check, value, skipped)

\* the check the sibling builder gives for the same string
Sibling(builder, operation) ==
    Build([builder EXCEPT
             !.operation = operation,
             !.class = IF @ = "Response" THEN @
                       ELSE IF operation = "not_contains"
                            THEN "ChatbotResponseMetadataCheck"
                       ELSE "Metadata",
             !.argument = IF builder.class = "Metadata" /\ operation = "not_contains"
                          THEN @.text
                          ELSE IF builder.class = "ChatbotResponseMetadataCheck"
                                  /\ operation # "not_contains"
                               THEN PyStr(@)
                          ELSE @]).value

\* C25: a check of any variant evaluated with skipped = true gives Skipped
\* whatever the value is, and an AI check evaluated so makes no call to the
\* evaluator.
C25_SkippedShortCircuits ==
    checking.skipped =>
        /\ \A i \in DOMAIN checking.results : checking.results[i].status = Skipped
        /\ calls = <<>>
        /\ (IsValueCheck /\ Check.operation # "one_of") =>
              \A t \in Texts(MaxLen) : to_check_result(Check, t, TRUE).status = Skipped

C25_Witness ==
    /\ checking.skipped
    /\ checking.call.outcome = "returned"
    /\ Check.type = "ai_check"
    /\ checking.answers[1] = "met"
    /\ Len(checking.results) = MaxEvaluations

\* C26: Response.re_match and Metadata(...).re_match called with a text that
\* is not a regular expression raise: the call hands no value back.
C26_InvalidRegexRaises ==
    (/\ checking.builder.operation = "regex_match"
     /\ ~Compiles(checking.builder.argument)
     /\ checking.call.outcome # "pending")
        => checking.call.outcome = "raised"

\* C27: a one_of check passes exactly when the raw value is a member of the
\* allowed list or its text form is the text form of a member, and fails
\* otherwise.
C27_OneOf ==
    (checking.builder.operation = "one_of" /\ ~checking.skipped) =>
        \A i \in DOMAIN checking.results :
            LET allowed == checking.builder.argument
                member == \E j \in DOMAIN allowed : PyEq(allowed[j], checking.value)
                same_text == \E j \in DOMAIN allowed : allowed[j].text = checking.value.text
            IN  checking.results[i].status = IF member \/ same_text THEN Passed ELSE Failed

C27_Witness ==
    /\ checking.builder.operation = "one_of"
    /\ ~checking.skipped
    /\ checking.builder.argument = <<PyInt(1), PyInt(2)>>
    /\ checking.value = PyStr("1")
    /\ Len(checking.results) = 1
    /\ checking.results[1].status = Passed

\* C28: on a string s and a text t exactly one of equals(s), not_equals(s)
\* passes, equals exactly when s = t; and exactly one of contains(s),
\* not_contains(s) passes, contains exactly when s occurs in t; for message
\* checks and for metadata checks.
C28_ComplementaryChecks ==
    (/\ IsValueCheck
     /\ checking.builder.operation \in StringOperations
     /\ checking.builder.class = "Metadata" => checking.builder.argument.py = "str"
     /\ ~checking.skipped)
        => LET t == checking.value
               s == Check.value
               status(operation) ==
                   to_check_result(Sibling(checking.builder, operation), t, FALSE).status
           IN  /\ \A i \in DOMAIN checking.results :
                     checking.results[i].status = status(checking.builder.operation)
               /\ status("equals") = IF s = t THEN Passed ELSE Failed
               /\ status("not_equals") = IF s = t THEN Failed ELSE Passed
               /\ status("contains") = IF IsSubstring(s, t) THEN Passed ELSE Failed
               /\ status("not_contains") = IF IsSubstring(s, t) THEN Failed ELSE Passed

C28_Witness ==
    /\ IsValueCheck
    /\ Check.type = "metadata_check"
    /\ Check.operation = "not_contains"
    /\ ~checking.skipped
    /\ Check.value = "b"
    /\ checking.value = "ab"
    /\ Len(checking.results) = 1
    /\ checking.results[1].status = Failed

Changed ==
    {r \in DOMAIN heap.roots :
        Seen(heap', heap.roots[r].conversation) # Seen(heap, heap.roots[r].conversation)}

\* C30: Conversation.nested stores a copy: the NestedConversation holds the
\* interactions the original had when it was nested, a later change to a
\* conversation or to one of its interactions is seen through that
\* conversation only, and an argument that is not a Conversation is rejected
\* with an error and nothing is stored.
C30_NestedIsDeepCopy ==
    [][/\ Len(heap'.roots) > Len(heap.roots) =>
             /\ heap'.call.outcome = "returned"
             /\ heap'.call.argument.class = "Conversation"
             /\ Seen(heap', heap'.roots[Len(heap'.roots)].conversation)
                    = Seen(heap, heap.roots[1].conversation)
             /\ Changed = {}
       /\ Len(heap'.roots) = Len(heap.roots) => Cardinality(Changed) <= 1
       /\ (heap'.call # heap.call /\ heap'.call.argument.class # "Conversation") =>
             /\ heap'.call.outcome = "raised"
             /\ heap'.roots = heap.roots
             /\ heap'.objects = heap.objects]_vars

C30_Witness ==
    /\ Len(heap.roots) = 3
    /\ heap.call.outcome = "raised"
    /\ Seen(heap, heap.roots[1].conversation) = <<ChatbotIgnoresMessage, UserMessage(FALSE)>>
    /\ Seen(heap, heap.roots[2].conversation) = <<UserMessage(FALSE)>>
    /\ Seen(heap, heap.roots[3].conversation) = <<UserMessage(FALSE), UserMessage(FALSE)>>

(* ------------------------------ decoding ------------------------------- *)
\* the ids of the entries of the input
EntryIds == {decoding.data[k].id : k \in DOMAIN decoding.data}

\* the entries an entry refers to, directly
RefersTo(id) == nested_ids(raw_lookup(decoding.data, id))

RECURSIVE ReachedFrom(_, _)
\* the ids reached from a set of ids by at most n references
ReachedFrom(ids, n) ==
    IF n = 0 THEN ids
    ELSE ReachedFrom(ids \cup UNION {RefersTo(id) : id \in ids \cap EntryIds}, n - 1)

\* every reference names an entry, and no entry reaches itself
Resolvable ==
    /\ \A id \in EntryIds : RefersTo(id) \subseteq EntryIds
    /\ \A id \in EntryIds : id \notin ReachedFrom(RefersTo(id), Len(decoding.data))

C33_SkippedRespondsListsChecks ==
    [][(AtInteraction("chatbot_responds") /\ Top.has_failed)
          => /\ Appended
             /\ Produced.status = Skipped
             /\ DOMAIN Produced.checks = DOMAIN Current.expectations
             /\ \A i \in DOMAIN Produced.checks :
                   /\ Produced.checks[i].data = Current.expectations[i]
                   /\ Produced.checks[i].status = Skipped]_vars

\* C34: a ChatbotResponds reached with has_failed = FALSE and a chatbot
\* message pending gets one check result per expectation, in the order of
\* the expectations; every check is evaluated, those after a failing check
\* too; the status is Failed if a check result is Failed and Passed otherwise.
C34_EveryCheckEvaluated ==
    [][(AtInteraction("chatbot_responds") /\ ~Top.has_failed /\ queue # <<>>)
          => /\ Appended
             /\ DOMAIN Produced.checks = DOMAIN Current.expectations
             /\ \A i \in DOMAIN Produced.checks :
                   /\ Produced.checks[i].data = Current.expectations[i]
                   /\ Produced.checks[i].status \in {Passed, Failed}
             /\ Len(calls') - Len(calls)
                   >= Cardinality({i \in DOMAIN Current.expectations :
                                      Current.expectations[i].type = "ai_check"})
             /\ Produced.status =
                   IF \E i \in DOMAIN Produced.checks : Produced.checks[i].status = Failed
                   THEN Failed ELSE Passed]_vars

\* the snapshot stored on the chatbot message at the head of the queue
ConsumedSnapshot == messages[Head(queue).index + 1].metadata[1]

\* C35: the metadata checks of a ChatbotResponds that consumes a chatbot
\* message are evaluated against the snapshot stored on that message, i.e.
\* the metadata collected up to the moment the message was recorded, also
\* when several chatbot messages were recorded during one handle_message call.
C35_ChecksReadConsumedSnapshot ==
    [][(AtInteraction("chatbot_responds") /\ ~Top.has_failed /\ queue # <<>>
          /\ \A i \in DOMAIN Current.expectations : IsCheck(Current.expectations[i]))
          => /\ Appended
             /\ Produced.metadata = ConsumedSnapshot
             /\ \A i \in DOMAIN Current.expectations :
                   Current.expectations[i].type = "metadata_check"
                      => Produced.checks[i]
                            = CheckResultOf(Current.expectations[i], FALSE, ConsumedSnapshot,
                                            Head(queue).body, <<>>)]_vars

(* ------------------- several test() calls in a row --------------------- *)
\* test() calls made one after the other in a sequence of runs
MaxRuns == 2

\* the conversations of a sequence of runs: a turn, a turn whose reply is
\* consumed and checked, and one of each other kind of interaction
RerunConversations ==
    {<<UserMessage(FALSE)>>,
     <<UserMessage(TRUE), ChatbotResponds(<<MetadataCheck>>)>>,
     <<NestedConversation(<<FunctionCall("register_user")>>), ChatbotIgnoresMessage>>}

\* Adapter.__init__ (adapter.py:140-154): the new adapter has its own empty
\* queue and log and starts counting from 0; metadata.metadata is a module
\* global, which neither __init__ nor the __del__ of the adapter before it
\* (adapter.py:156-163) assigns
NewAdapter(a) ==
    [a EXCEPT !.messages = <<>>, !.queue = <<>>, !.next_message_index = 0,
              !.recorded = <<>>]

RerunInit ==
    /\ conversation \in RerunConversations
    /\ stack = <<Frame(conversation, FALSE)>>
    /\ pc = "walk"
    /\ handling = NoHandling
    /\ events = 0
    /\ messages = <<>>
    /\ queue = <<>>
    /\ next_message_index = 0
    /\ metadata = EmptyMap
    /\ result = NoResult
    /\ calls = <<>>
    /\ thrown = {}
    /\ collected = EmptyMap
    /\ recorded = <<>>
    /\ answered = <<>>
    /\ checking = NoChecking
    /\ heap = NoHeap
    /\ decoding = NoDecoding
    /\ run = FirstRun
    /\ timing = NoTiming

\* test() has returned and is called again, on the same adapter or on a new
\* one: test() assigns start_time and testing_time and nothing of the adapter
\* (adapter.py:311-315)
TestAgain ==
    /\ pc = "done"
    /\ run.number < MaxRuns
    /\ \E c \in RerunConversations, same_adapter \in BOOLEAN :
          LET a == IF same_adapter THEN AdapterState ELSE NewAdapter(AdapterState)
          IN  /\ SetAdapter(a)
              /\ conversation' = c
              /\ stack' = <<Frame(c, FALSE)>>
              /\ run' = [number |-> run.number + 1, log |-> a.messages,
                         pending |-> a.queue, carried |-> a.metadata]
    /\ pc' = "walk"
    /\ events' = 0
    /\ result' = NoResult
    /\ UNCHANGED <<handling, calls, thrown, answered, checking, heap, decoding, timing>>

RerunNext ==
    \/ Next
    \/ TestAgain

RerunSpec == RerunInit /\ [][RerunNext]_vars

\* C36: every top-level test() call starts from an empty message log and an
\* empty pending queue, so its Result holds only the messages recorded during
\* the call and no chatbot message left pending by the call before it can fail
\* its first UserMessage.
C36_RunStartsEmpty == run.log = <<>> /\ run.pending = <<>>

\* C37: at the start of every test() run the metadata accumulator is empty,
\* whatever an earlier run or an earlier adapter collected, also in a turn
\* that produced no chatbot reply.
C37_RunStartsWithoutMetadata == run.carried = EmptyMap

(* --------------------- the two clocks of test() ------------------------ *)
\* the clock is read in whole ticks of one millisecond; it ends at MaxTicks
MaxTicks == 3

\* the interactions test() spends time on: a literal and a generated user
\* message, a ChatbotResponds, and conversations nested in each other
TimedLeaves == {UserMessage(FALSE), UserMessage(TRUE), ChatbotResponds(<<>>)}

RECURSIVE TimedConvs(_)
TimedConvs(n) ==
    IF n = 0 THEN {<<>>}
    ELSE {<<>>}
         \cup {<<i>> \o rest : i \in TimedLeaves, rest \in TimedConvs(n - 1)}
         \cup UNION {{<<NestedConversation(c)>> \o rest :
                          rest \in TimedConvs(n - 1 - Size(c))} :
                     c \in TimedConvs(n - 1)}

\* the locals of one test() call (adapter.py:311-312); spent is history: the
\* time that passed inside generation and check evaluation, whatever followed
TimedFrame(interactions, now) ==
    [interactions |-> interactions, pos |-> 1, start_time |-> now, testing_time |-> 0,
     spent |-> 0, errors |-> FALSE]

TimedTop == timing.frames[Len(timing.frames)]
TimedCurrent == TimedTop.interactions[TimedTop.pos]

TimedAt(type) ==
    /\ timing.pc = "walk"
    /\ ~TimedTop.errors
    /\ TimedTop.pos <= Len(TimedTop.interactions)
    /\ TimedCurrent.type = type

\* the variables a test() call seen through its clock leaves alone
Untimed ==
    <<conversation, stack, pc, handling, events, messages, queue, next_message_index,
      metadata, result, calls, thrown, collected, recorded, answered, checking, heap,
      decoding, run>>

\* the frame on top of the stack is replaced
WithTop(frame) == [timing EXCEPT !.frames[Len(timing.frames)] = frame]

\* the loop goes on to the next interaction
TimedNext(frame) == [frame EXCEPT !.pos = @ + 1]

\* an exception or a list of exceptions ends the call (adapter.py:362-369, 375-383)
TimedFailed(frame) == [frame EXCEPT !.errors = TRUE]

\* the span from generation_start_time to now is over; it is added to
\* testing_time where the code reaches its `testing_time +=` (adapter.py:344, 371)
SpanOver(frame, added) ==
    LET span == timing.now - timing.generation_start_time
    IN  [frame EXCEPT !.spent = @ + span,
                      !.testing_time = IF added THEN @ + span ELSE @]

\* the TestResult a call returns (adapter.py:363-369, 377-383, 385-391), with
\* the two readings it is compared to
TimedResult(frame) ==
    [errors |-> frame.errors,
     testing_time_ms |-> frame.testing_time,
     chatbot_time_ms |-> timing.now - frame.start_time - frame.testing_time,
     elapsed |-> timing.now - frame.start_time,
     spent |-> frame.spent]

TimeInit ==
    /\ conversation = <<>>
    /\ stack = <<Frame(conversation, FALSE)>>
    /\ pc = "walk"
    /\ handling = NoHandling
    /\ events = 0
    /\ messages = <<>>
    /\ queue = <<>>
    /\ next_message_index = 0
    /\ metadata = EmptyMap
    /\ result = NoResult
    /\ calls = <<>>
    /\ thrown = {}
    /\ collected = EmptyMap
    /\ recorded = <<>>
    /\ answered = <<>>
    /\ checking = NoChecking
    /\ heap = NoHeap
    /\ decoding = NoDecoding
    /\ run = FirstRun
    /\ \E c \in TimedConvs(MaxInteractions) :
          timing = [pc |-> "walk", now |-> 0, frames |-> <<TimedFrame(c, 0)>>,
                    generation_start_time |-> 0, returned |-> <<>>]

\* time passes: in the chatbot, in the generator, in the evaluator, in the loop
Tick ==
    /\ timing.pc \in {"walk", "generating", "checking"}
    /\ timing.now < MaxTicks
    /\ timing' = [timing EXCEPT !.now = @ + 1]
    /\ UNCHANGED Untimed

\* a literal UserMessage (adapter.py:328-335): the turn is taken, or
\* _assert_no_chatbot_messages or handle_message raises
TimedUserMessage ==
    /\ TimedAt("user_message")
    /\ ~TimedCurrent.generated
    /\ \E raises \in BOOLEAN :
          timing' = WithTop(IF raises THEN TimedFailed(TimedTop) ELSE TimedNext(TimedTop))
    /\ UNCHANGED Untimed

\* a generated user message, up to the call of the generator (adapter.py:337-342)
BeginGeneration ==
    /\ TimedAt("user_message")
    /\ TimedCurrent.generated
    /\ timing' = [timing EXCEPT !.generation_start_time = timing.now, !.pc = "generating"]
    /\ UNCHANGED Untimed

\* the generator returns or raises (adapter.py:343-350); handle_message may
\* raise after the span was added
EndGeneration ==
    /\ timing.pc = "generating"
    /\ \E outcome \in {"text", "generation_raises", "handle_message_raises"} :
          timing' = [WithTop(IF outcome = "text"
                             THEN TimedNext(SpanOver(TimedTop, TRUE))
                             ELSE TimedFailed(SpanOver(TimedTop, outcome # "generation_raises")))
                     EXCEPT !.pc = "walk"]
    /\ UNCHANGED Untimed

\* a ChatbotResponds, up to the evaluation of its checks (adapter.py:352-355)
BeginCheck ==
    /\ TimedAt("chatbot_responds")
    /\ timing' = [timing EXCEPT !.generation_start_time = timing.now, !.pc = "checking"]
    /\ UNCHANGED Untimed

\* the checks are evaluated (adapter.py:355-371): no exceptions and the span is
\* added; exceptions and test() returns before line 371; or the evaluation
\* raises into the except clause
EndCheck ==
    /\ timing.pc = "checking"
    /\ \E outcome \in {"no_exceptions", "exceptions", "raises"} :
          timing' = [WithTop(IF outcome = "no_exceptions"
                             THEN TimedNext(SpanOver(TimedTop, TRUE))
                             ELSE TimedFailed(SpanOver(TimedTop, FALSE)))
                     EXCEPT !.pc = "walk"]
    /\ UNCHANGED Untimed

\* a NestedConversation: test() calls itself (adapter.py:316-317)
TimedEnterNested ==
    /\ TimedAt("nested_conversation")
    /\ timing' = [timing EXCEPT
                     !.frames = Append(@, TimedFrame(TimedCurrent.conversation, timing.now))]
    /\ UNCHANGED Untimed

\* a test() call returns its TestResult; the call that made it adds the
\* result's testing time to its own and returns at once if there were errors
\* (adapter.py:318-323)
TimedReturn ==
    /\ timing.pc = "walk"
    /\ TimedTop.errors \/ TimedTop.pos > Len(TimedTop.interactions)
    /\ LET test_result == TimedResult(TimedTop)
           outer == SubSeq(timing.frames, 1, Len(timing.frames) - 1)
           caller == outer[Len(outer)]
       IN  timing' =
              IF outer = <<>>
              THEN [timing EXCEPT !.returned = Append(@, test_result), !.pc = "done"]
              ELSE [timing EXCEPT
                      !.returned = Append(@, test_result),
                      !.frames =
                         [outer EXCEPT ![Len(outer)] =
                            [caller EXCEPT
                               !.testing_time = @ + test_result.testing_time_ms,
                               !.spent = @ + test_result.spent,
                               !.errors = test_result.errors,
                               !.pos = IF test_result.errors THEN @ ELSE @ + 1]]]
    /\ UNCHANGED Untimed

TimeNext ==
    \/ Tick
    \/ TimedUserMessage
    \/ BeginGeneration
    \/ EndGeneration
    \/ BeginCheck
    \/ EndCheck
    \/ TimedEnterNested
    \/ TimedReturn

TimeSpec == TimeInit /\ [][TimeNext]_vars

\* C38: for every run, chatbot_time + testing_time is the time that passed
\* between the start of test() and its return, and testing_time is the sum of
\* the spans spent in user-message generation and in check evaluation, also
\* when a check fails and when the time comes from a nested conversation.
C38_TimeIsSplitInTwo ==
    \A i \in DOMAIN timing.returned :
        /\ timing.returned[i].chatbot_time_ms + timing.returned[i].testing_time_ms
              = timing.returned[i].elapsed
        /\ timing.returned[i].testing_time_ms = timing.returned[i].spent

====
